---- MODULE Spec2Model ----
(***************************************************************************)
(* Model of github.com/abecodes/dft: one container's lifecycle as driven   *)
(* by StartContainer / newContainer, Container.WaitCmd and Container.Stop, *)
(* against a docker runtime whose commands can fail.                       *)
(*                                                                         *)
(* Go strings that the code parses are sequences of one-character strings; *)
(* a Go error is the chain of its messages, outermost first, and the nil   *)
(* error is the empty chain.  A *Container is <<>> (nil) or <<c>>.         *)
(***************************************************************************)
EXTENDS Integers, Sequences, FiniteSets, TLC

\* ------------------------------------------------------------------ bounds
\* ticks one polling loop may take in the model
MaxTicks == 3

\* the longest list of options passed to StartContainer
MaxOpts == 3

\* ------------------------------------------------------- program constants
stateCreated == "'created'\n"
stateDead == "'dead'\n"
stateExited == "'exited'\n"
statePaused == "'paused'\n"
stateRestarting == "'restarting'\n"
stateRunning == "'running'\n"

\* a status docker can report that the switch of containerIsAlive does not name
stateRemoving == "'removing'\n"

Statuses ==
  {stateCreated, stateDead, stateExited, statePaused, stateRestarting,
   stateRunning, stateRemoving}

\* cmd.ProcessState.ExitCode() of a command that never started or was killed
notStarted == -1

\* ------------------------------------------------------------ Go strings
Digits == <<"0", "1", "2", "3", "4", "5", "6", "7", "8", "9">>

IsDigit(c) == \E i \in 1..10 : Digits[i] = c

DigitVal(c) == (CHOOSE i \in 1..10 : Digits[i] = c) - 1

RECURSIVE ParseDigits(_)
ParseDigits(s) ==
  IF s = <<>> THEN 0
  ELSE 10 * ParseDigits(SubSeq(s, 1, Len(s) - 1)) + DigitVal(s[Len(s)])

\* strconv.ParseUint(s, 10, 64): the values of the model stay far below 2^64
ParseUint(s) ==
  IF s # <<>> /\ \A i \in 1..Len(s) : IsDigit(s[i])
  THEN [v |-> ParseDigits(s), ok |-> TRUE]
  ELSE [v |-> 0, ok |-> FALSE]

RECURSIVE FormatUint(_)
FormatUint(n) ==
  IF n < 10 THEN <<Digits[n + 1]>>
  ELSE FormatUint(n \div 10) \o <<Digits[(n % 10) + 1]>>

HasPrefixAt(s, sep, i) ==
  /\ i + Len(sep) - 1 <= Len(s)
  /\ SubSeq(s, i, i + Len(sep) - 1) = sep

\* index of the first occurrence of sep in s, 0 when there is none
Index(s, sep) ==
  IF \E i \in 1..Len(s) : HasPrefixAt(s, sep, i)
  THEN CHOOSE i \in 1..Len(s) :
         /\ HasPrefixAt(s, sep, i)
         /\ \A j \in 1..(i - 1) : ~HasPrefixAt(s, sep, j)
  ELSE 0

\* strings.Split(s, sep) for a non-empty sep
RECURSIVE Split(_, _)
Split(s, sep) ==
  LET i == Index(s, sep) IN
  IF i = 0 THEN <<s>>
  ELSE <<SubSeq(s, 1, i - 1)>> \o Split(SubSeq(s, i + Len(sep), Len(s)), sep)

RECURSIVE Join(_, _)
Join(parts, sep) ==
  IF Len(parts) = 0 THEN <<>>
  ELSE IF Len(parts) = 1 THEN parts[1]
  ELSE parts[1] \o sep \o Join(Tail(parts), sep)

\* strings.ReplaceAll(s, old, new) for a non-empty old
ReplaceAll(s, old, new) == Join(Split(s, old), new)

Arrow == <<" ", "-", ">", " ">>
SlashTcp == <<"/", "t", "c", "p">>
Colon == <<":">>

\* ------------------------------------------------------------- Go errors
NoErr == <<>>
CtxErr == <<"ctx.Err()">>
Wrap(msg, e) == <<msg>> \o e

\* --------------------------------------------------------- *Container
Nil == <<>>
Ptr(c) == <<c>>
ContainerId == "0123456789ab"
EmptyMap == [p \in {} |-> <<>>]

\* ------------------------------------------------- launch configuration
\* the image a container is started from, only used in messages
imageName == "img"

\* host port docker picks for a [2]uint{port, 0} pair
RandomHostPort == 49155

\* containerCfg.ports after the options were applied: (internal, host) pairs
PortConfigs ==
  { <<>>,
    << <<80, 0>> >>,
    << <<80, 0>>, <<443, 8443>> >> }

RequestedPorts(ports) == { ports[i][1] : i \in 1..Len(ports) }

\* ports a caller asks a handle about: the requested ones and an unrequested one
QueryPorts == {80, 443, 9999}

\* --------------------------------------------------------- the options
\* strings.ToUpper on the letters the model's keys are written with
ToUpperChar(c) ==
  CASE c = "k" -> "K"
    [] c = "a" -> "A"
    [] OTHER -> c

ToUpper(s) == [i \in 1..Len(s) |-> ToUpperChar(s[i])]

\* containerCfg with every field nil
NilCfg == [args |-> <<>>, env |-> <<>>, ports |-> <<>>]

\* an option value: the function's name and its arguments
Opt(name, args, key, value, port, target) ==
  [opt |-> name, args |-> args, key |-> key, value |-> value,
   port |-> port, target |-> target]

WithCmd(args) == Opt("WithCmd", args, <<>>, <<>>, 0, 0)

WithEnvVar(key, value) == Opt("WithEnvVar", <<>>, key, value, 0, 0)

WithPort(port, target) == Opt("WithPort", <<>>, <<>>, <<>>, port, target)

WithRandomPort(port) == WithPort(port, 0)

\* ApplyOpt when WithEnvVar replaces the entries that have its key
ApplyOptOverwrite(o, c) ==
  CASE o.opt = "WithCmd" -> [c EXCEPT !.args = @ \o o.args]
    [] o.opt = "WithEnvVar" ->
         LET key == ToUpper(o.key) \o <<"=">>
             other(e) == Len(e) < Len(key) \/ SubSeq(e, 1, Len(key)) # key
         IN [c EXCEPT !.env = Append(SelectSeq(@, other), key \o o.value)]
    [] OTHER -> [c EXCEPT !.ports = Append(@, <<o.port, o.target>>)]

\* opts[i](&cfg): what one option does to the configuration
ApplyOpt(o, c) ==
  CASE o.opt = "WithCmd" -> [c EXCEPT !.args = @ \o o.args]
    [] o.opt = "WithEnvVar" ->
         [c EXCEPT !.env = Append(@, ToUpper(o.key) \o <<"=">> \o o.value)]
    [] OTHER -> [c EXCEPT !.ports = Append(@, <<o.port, o.target>>)]

\* `for i := range opts { opts[i](&cfg) }` of newContainer
RECURSIVE ApplyOpts(_, _)
ApplyOpts(os, c) ==
  IF os = <<>> THEN c ELSE ApplyOpts(Tail(os), ApplyOpt(Head(os), c))

\* the options a caller passes in the model
OptChoices ==
  { WithEnvVar(<<"k">>, <<"1">>), WithEnvVar(<<"k">>, <<"2">>),
    WithEnvVar(<<"a">>, <<"1">>), WithRandomPort(80), WithCmd(<< <<"x">> >>) }

RECURSIVE OptListsOfLen(_)
OptListsOfLen(n) ==
  IF n = 0 THEN { <<>> }
  ELSE { Append(l, o) : l \in OptListsOfLen(n - 1), o \in OptChoices }

OptLists == UNION { OptListsOfLen(n) : n \in 0..MaxOpts }

\* ------------------------------------------------- the start invocation
WRun == <<"r", "u", "n">>
WDetach == <<"-", "d">>
WPublish == <<"-", "p">>
WEnv == <<"-", "e">>
WImage == <<"i", "m", "g">>

\* the -p value startContainer renders for one element of exposedPorts
PortSeq(pair) ==
  IF pair[2] = 0 THEN FormatUint(pair[1])
  ELSE FormatUint(pair[1]) \o Colon \o FormatUint(pair[2])

RECURSIVE PortFlags(_)
PortFlags(ports) ==
  IF ports = <<>> THEN <<>>
  ELSE <<WPublish, PortSeq(Head(ports))>> \o PortFlags(Tail(ports))

RECURSIVE EnvFlags(_)
EnvFlags(envVars) ==
  IF envVars = <<>> THEN <<>>
  ELSE <<WEnv, Head(envVars)>> \o EnvFlags(Tail(envVars))

\* args of startContainer, without the mounts: the model has no WithMount
StartArgs(c) ==
  <<WRun, WDetach>> \o PortFlags(c.ports) \o EnvFlags(c.env)
    \o <<WImage>> \o c.args

\* the values of the -e flags docker reads from an invocation, in order
RECURSIVE DockerEnv(_)
DockerEnv(words) ==
  IF words = <<>> THEN <<>>
  ELSE IF Head(words) = WImage THEN <<>>
  ELSE IF Head(words) = WEnv /\ Len(words) > 1
       THEN <<words[2]>> \o DockerEnv(Tail(Tail(words)))
  ELSE DockerEnv(Tail(words))

\* how docker reads one -p value: "<container>" or "<host>:<container>"
DockerPublish(val) ==
  LET parts == Split(val, Colon)
  IN IF Len(parts) = 1 THEN <<ParseUint(parts[1]).v, 0>>
     ELSE <<ParseUint(parts[2]).v, ParseUint(parts[1]).v>>

\* the (container port, host port) pairs docker publishes for an invocation;
\* docker stops reading flags at the image name
RECURSIVE DockerPorts(_)
DockerPorts(words) ==
  IF words = <<>> THEN <<>>
  ELSE IF Head(words) = WPublish
  THEN <<DockerPublish(words[2])>> \o DockerPorts(SubSeq(words, 3, Len(words)))
  ELSE IF Head(words) = WEnv
  THEN DockerPorts(SubSeq(words, 3, Len(words)))
  ELSE IF Head(words) \in {WRun, WDetach}
  THEN DockerPorts(Tail(words))
  ELSE <<>>

\* ------------------------------------------------------ the docker runtime
AddrV4(hostPort) ==
  <<"0", ".", "0", ".", "0", ".", "0">> \o Colon \o FormatUint(hostPort)

AddrV6(hostPort) == <<"[", ":", ":", "]">> \o Colon \o FormatUint(hostPort)

\* one line of `docker port <id>`: "<port>/tcp -> <host>:<hostport>"
PortLine(port, addr) == FormatUint(port) \o SlashTcp \o Arrow \o addr

HostPortOf(pair) == IF pair[2] = 0 THEN RandomHostPort ELSE pair[2]

\* a line of a runtime that names the protocol otherwise than "/tcp"
PortLineUdp(port, addr) ==
  FormatUint(port) \o <<"/", "u", "d", "p">> \o Arrow \o addr

\* the lines the runtime prints for one published pair: an IPv4 binding, an
\* IPv6 binding too when the host has IPv6, or a line of another protocol
PairLines(pair) ==
  { << PortLine(pair[1], AddrV4(HostPortOf(pair))) >>,
    << PortLine(pair[1], AddrV4(HostPortOf(pair))),
       PortLine(pair[1], AddrV6(HostPortOf(pair))) >>,
    << PortLineUdp(pair[1], AddrV4(HostPortOf(pair))) >> }

\* every output `docker port <id>` can have once the ports are published
RECURSIVE PublishOptions(_)
PublishOptions(ports) ==
  IF ports = <<>> THEN { <<>> }
  ELSE { h \o t : h \in PairLines(Head(ports)),
                  t \in PublishOptions(Tail(ports)) }

\* a mount of a container as `docker inspect` shows it: a bind mount has no
\* name
Volume(name) == [type |-> "volume", name |-> name]
Bind == [type |-> "bind", name |-> ""]

\* the mounts a started container can have: none, a bind mount, or volumes
\* around a bind mount
MountOptions ==
  { <<>>, <<Bind>>, <<Volume("vol1"), Bind, Volume("vol2")>> }

\* stdout of getVolumes' inspect template: one line per mount, the name of
\* a mount of type volume and nothing for any other
RECURSIVE VolumeLines(_)
VolumeLines(mounts) ==
  IF mounts = <<>> THEN <<>>
  ELSE (IF Head(mounts).type = "volume" THEN <<Head(mounts).name>> ELSE <<>>)
         \o VolumeLines(Tail(mounts))

\* getVolumes(ctx, id) after its command succeeded: the non-empty lines
getVolumes(mounts) == SelectSeq(VolumeLines(mounts), LAMBDA t : t # "")

\* what `docker volume rm <args>` leaves of the mounts
VolumeRm(mounts, args) ==
  SelectSeq(mounts, LAMBDA m :
    ~(m.type = "volume" /\ \E i \in 1..Len(args) : args[i] = m.name))

\* RunOutcomes when a command runs to its end although ctx is done
RunOutcomesIgnoreCtx(ctxDone, exists) ==
  IF ~exists THEN {FALSE} ELSE {TRUE, FALSE}

\* exec.CommandContext(ctx, "docker", ...).Run(): the command fails when ctx is
\* done or when it names a container the runtime does not have, and it can
\* fail for reasons of the daemon at any time
RunOutcomes(ctxDone, exists) ==
  IF ctxDone \/ ~exists THEN {FALSE} ELSE {TRUE, FALSE}

\* --------------------------------------------------------- pure functions
\* Classify with `case stateRunning` turned into the switch's default
ClassifyDefaultRunning(state) ==
  IF state \in {stateDead, stateExited, statePaused, stateRestarting}
  THEN "failed"
  ELSE IF state = stateCreated THEN "starting"
  ELSE "running"

\* switch state { ... } of containerIsAlive
Classify(state) ==
  IF state \in {stateDead, stateExited, statePaused, stateRestarting}
  THEN "failed"
  ELSE IF state = stateRunning THEN "running"
  ELSE "starting"

InvalidStateErr(state) == Wrap("container in invalid state: ", <<state>>)

MapAppend(pm, k, v) ==
  [x \in (DOMAIN pm) \cup {k} |->
     IF x = k
     THEN (IF k \in DOMAIN pm THEN Append(pm[k], v) ELSE <<v>>)
     ELSE pm[x]]

\* the scanner loop of getPublishedPorts over the captured stdout; cmdErr is
\* the (nil) error of cmd.Run, which the loop returns on a parse failure
RECURSIVE ScanPortLines(_, _, _)
ScanPortLines(lines, pm, cmdErr) ==
  IF lines = <<>> THEN [pm |-> pm, err |-> NoErr]
  ELSE LET parts == Split(Head(lines), Arrow)
           port == ParseUint(ReplaceAll(parts[1], SlashTcp, <<>>))
       IN IF ~port.ok THEN [pm |-> EmptyMap, err |-> cmdErr]
          ELSE ScanPortLines(Tail(lines),
                             MapAppend(pm, port.v, parts[2]), cmdErr)

\* getPublishedPorts(ctx, id) given the command's outcome and its stdout
getPublishedPorts(ok, lines) ==
  IF ~ok
  THEN [pm |-> EmptyMap, err |-> <<"unable to retrieve container ports">>]
  ELSE ScanPortLines(lines, EmptyMap, NoErr)

\* the loop of Container.ExposedPorts over strs
RECURSIVE HostPorts(_)
HostPorts(strs) ==
  IF strs = <<>> THEN [ports |-> <<>>, ok |-> TRUE]
  ELSE LET parts == Split(Head(strs), Colon)
           v == ParseUint(parts[2])
           rest == HostPorts(Tail(strs))
       IN IF ~v.ok \/ ~rest.ok THEN [ports |-> <<>>, ok |-> FALSE]
          ELSE [ports |-> <<v.v>> \o rest.ports, ok |-> TRUE]

\* Container.ExposedPorts(port)
ExposedPorts(c, port) ==
  IF port \notin DOMAIN c.portMappings THEN [ports |-> <<>>, ok |-> FALSE]
  ELSE HostPorts(c.portMappings[port])

\* Container.ExposedPortAddresses(port)
ExposedPortAddresses(c, port) ==
  IF port \in DOMAIN c.portMappings
  THEN [addrs |-> c.portMappings[port], ok |-> TRUE]
  ELSE [addrs |-> <<>>, ok |-> FALSE]

\* the error newContainer returns for a poller error e
LaunchErr(e) == Wrap("[img](id) %w logs:", e)

\* ------------------------------------------------------- probe execution
Exit(code) ==
  [code |-> code,
   err |-> IF code = 0 THEN NoErr ELSE <<"exit status">>,
   cancel |-> FALSE]

\* cmd.Run() under a context: with ctx done the command is not started
\* (nil ProcessState, ExitCode() = -1, err = ctx.Err()); a command that is
\* running when ctx becomes done is killed (ExitCode() = -1, a signal error)
RunProbe(ctxDone, normal) ==
  IF ctxDone
  THEN { [code |-> notStarted, err |-> CtxErr, cancel |-> FALSE] }
  ELSE normal \cup
       { [code |-> notStarted, err |-> <<"signal: killed">>, cancel |-> TRUE] }

\* hostExecute(ctx, command): runnable says whether command[0] can be started
hostExecute(ctxDone, runnable) ==
  RunProbe(ctxDone,
           IF runnable THEN { Exit(0), Exit(1) }
           ELSE { [code |-> notStarted,
                   err |-> <<"executable file not found">>,
                   cancel |-> FALSE] })

\* dockerExecute(ctx, id, command): `docker exec` itself starts, and exits
\* non-zero when the container is gone or the command cannot run in it
dockerExecute(ctxDone, exists, runnable) ==
  RunProbe(ctxDone,
           IF ~exists THEN { Exit(1) }
           ELSE IF runnable THEN { Exit(0), Exit(1) }
           ELSE { Exit(127) })

\* ProbeUnrunnable without the test of the exit code
ProbeUnrunnableAnyErr(r) == r.err # NoErr

\* `err != nil && code == -1` of WaitCmd
ProbeUnrunnable(r) == r.err # NoErr /\ r.code = notStarted

WaitCmdErr(r) == Wrap("wait command errored: ", r.err)

\* the caller's metCondition callbacks, as functions of the exit code
Preds == {"alwaysFalse", "codeIsZero", "codeNonZero"}

metCondition(pred, code) ==
  CASE pred = "codeIsZero" -> code = 0
    [] pred = "codeNonZero" -> code # 0
    [] OTHER -> FALSE

\* ------------------------------------------------------------------ state
VARIABLES
  cfg,        \* containerCfg after the options were applied
  ctx,        \* the context of the call in progress: "live" or "done"
  sCtx,       \* the context the deferred func of newContainer creates
  rt,         \* the runtime's view of the container
  pc,         \* where the caller is
  stopPc,     \* the next step of the Stop in progress
  ids,        \* Stop's local ids: the enumerated volumes
  ctr,        \* the *Container the caller holds
  ret,        \* what the last call returned
  cmds,       \* the docker commands the call in progress has issued, in order
  err,        \* newContainer's local err
  alive,      \* what containerIsAlive's goroutine has sent: none, rdy or err
  portsCh,    \* what the port goroutine has sent on errCh: none, nil or err
  aliveLast,  \* the last status containerIsAlive's goroutine has read
  wait,       \* the WaitCmd in progress and its counters
  opts,       \* the options passed to StartContainer
  argv,       \* args of startContainer's `docker run`
  portOut,    \* stdout of the last `docker port` of the port goroutine
  query,      \* the last ExposedPortAddresses call and its result
  stopped,    \* how Stop calls on the handle have returned: no, err or nil
  gor,        \* where a poller's goroutine is, when its channel is modelled
  msg         \* what that goroutine sends on its channel

vars ==
  <<cfg, ctx, sCtx, rt, pc, stopPc, ids, ctr, ret, cmds, err, alive, portsCh,
    aliveLast, wait, opts, argv, portOut, query, stopped, gor, msg>>

Cmd(name, ctxName, exists, ok) ==
  [cmd |-> name, ctx |-> ctxName, exists |-> exists, ok |-> ok]

Count(name) == Cardinality({ i \in 1..Len(cmds) : cmds[i].cmd = name })

NoRet == [op |-> "none", ctr |-> Nil, err |-> NoErr]

NoWait ==
  [pred |-> "alwaysFalse", inContainer |-> FALSE, runnable |-> TRUE,
   ticks |-> 0, unrunnable |-> 0, predCalls |-> 0, predTrue |-> 0,
   lateTicks |-> 0,
   lastCode |-> 0, lastErr |-> NoErr]

NoContainer ==
  [exists |-> FALSE, status |-> stateCreated, portLines |-> <<>>,
   mounts |-> <<>>]

NoQuery == [port |-> 0, addrs |-> <<>>, ok |-> FALSE]

\* the WithPort options that request the pairs ports
PortOpts(ports) == [i \in 1..Len(ports) |-> WithPort(ports[i][1], ports[i][2])]

\* the state when newContainer has applied its options
Init ==
  /\ opts \in { PortOpts(p) : p \in PortConfigs }
  /\ cfg = ApplyOpts(opts, NilCfg)
  /\ argv = <<>>
  /\ portOut = <<>>
  /\ query = NoQuery
  /\ stopped = "no"
  /\ gor = "none"
  /\ msg = "none"
  /\ ctx \in {"live", "done"}
  /\ sCtx = "none"
  /\ rt = NoContainer
  /\ pc = "idle"
  /\ stopPc = "none"
  /\ ids = <<>>
  /\ ctr = Nil
  /\ ret = NoRet
  /\ cmds = <<>>
  /\ err = NoErr
  /\ alive = "none"
  /\ portsCh = "none"
  /\ aliveLast = "none"
  /\ wait = NoWait

\* ---------------------------------------------------------------- launch
StartRet(c, e) == [op |-> "StartContainer", ctr |-> c, err |-> e]

\* CleanupCtx when the deferred func reuses the caller's context
CleanupCtxCaller == "ctx"

\* the context the deferred func of newContainer hands to ctr.Stop
CleanupCtx == "sCtx"

\* the tail of newContainer after a poller reported e: err = e, getLogs, the
\* return value is built, and the deferred func starts its Stop
LaunchFails(e, issued) ==
  /\ err' = e
  /\ \E ok \in RunOutcomes(ctx = "done", rt.exists) :
       cmds' = Append(issued, Cmd("logs", "ctx", rt.exists, ok))
  /\ sCtx' = "live"
  /\ pc' = "cleanup"
  /\ stopPc' = "stop"

\* return &Container{id: id, portMappings: prtMpns}, nil
LaunchReturns(pm) ==
  /\ ctr' = Ptr([id |-> ContainerId, portMappings |-> pm])
  /\ ret' = StartRet(ctr', NoErr)
  /\ pc' = "launched"

\* StartContainer: exec.LookPath(dockerCmd) fails
StartNoDocker ==
  /\ pc = "idle"
  /\ ret' = StartRet(Nil, <<"executable file not found in $PATH">>)
  /\ pc' = "failed"
  /\ UNCHANGED <<gor, msg, cfg, opts, argv, portOut, query, stopped,
                 ctx, sCtx, rt, stopPc, ids, ctr, cmds, err, alive,
                 portsCh, aliveLast, wait>>

\* StartRunFails when the deferred cleanup is registered before the start
StartRunFailsCleanup ==
  /\ pc = "idle"
  /\ \E created \in (IF ctx = "done" THEN {FALSE} ELSE BOOLEAN) :
       rt' = [NoContainer EXCEPT !.exists = created]
  /\ cmds' = << Cmd("run", "ctx", FALSE, FALSE) >>
  /\ err' = <<"unable to start container">>
  /\ sCtx' = "live"
  /\ pc' = "cleanup"
  /\ stopPc' = "stop"
  /\ argv' = StartArgs(cfg)
  /\ UNCHANGED <<gor, msg, cfg, opts, portOut, query, stopped,
                 ctx, ids, ctr, ret, alive, portsCh, aliveLast, wait>>

\* StartRunFails when newContainer goes on to the liveness poller all the same
StartRunFailsIgnoreErr ==
  /\ pc = "idle"
  /\ \E created \in (IF ctx = "done" THEN {FALSE} ELSE BOOLEAN) :
       rt' = [NoContainer EXCEPT !.exists = created]
  /\ cmds' = << Cmd("run", "ctx", FALSE, FALSE) >>
  /\ pc' = "alive"
  /\ argv' = StartArgs(cfg)
  /\ UNCHANGED <<gor, msg, cfg, opts, portOut, query, stopped,
                 ctx, sCtx, stopPc, ids, ctr, ret, err, alive, portsCh,
                 aliveLast, wait>>

\* newContainer: startContainer's `docker run -d` fails; the runtime may have
\* created the container all the same
StartRunFails ==
  /\ pc = "idle"
  /\ \E created \in (IF ctx = "done" THEN {FALSE} ELSE BOOLEAN) :
       rt' = [NoContainer EXCEPT !.exists = created]
  /\ cmds' = << Cmd("run", "ctx", FALSE, FALSE) >>
  /\ ret' = StartRet(Nil, Wrap("[img]() %w", <<"unable to start container">>))
  /\ pc' = "failed"
  /\ argv' = StartArgs(cfg)
  /\ UNCHANGED <<gor, msg, cfg, opts, portOut, query, stopped,
                 ctx, sCtx, stopPc, ids, ctr, err, alive, portsCh,
                 aliveLast, wait>>

\* newContainer: startContainer's `docker run -d` exits zero
StartRunOk ==
  /\ pc = "idle"
  /\ TRUE \in RunOutcomes(ctx = "done", TRUE)
  /\ \E st \in Statuses,
        lines \in PublishOptions(DockerPorts(StartArgs(cfg))),
        mnts \in MountOptions :
       rt' = [exists |-> TRUE, status |-> st, portLines |-> lines,
              mounts |-> mnts]
  /\ cmds' = << Cmd("run", "ctx", FALSE, TRUE) >>
  /\ pc' = "alive"
  /\ argv' = StartArgs(cfg)
  /\ UNCHANGED <<gor, msg, cfg, opts, portOut, query, stopped,
                 ctx, sCtx, stopPc, ids, ctr, ret, err, alive, portsCh,
                 aliveLast, wait>>

\* NeedsPortDiscovery when the port loop runs for every configuration
NeedsPortDiscoveryAlways == TRUE

\* `if len(exposedPorts) > 0` of newContainer
NeedsPortDiscovery == Len(cfg.ports) > 0

\* one pass of the goroutine's loop body in containerIsAlive: what it sends
AliveOutcome(ok, state) ==
  IF ~ok
  THEN [send |-> "err",
        e |-> Wrap("errors.Join", <<"cErr", "unable to inspect container: ">>)]
  ELSE IF Classify(state) = "failed"
  THEN [send |-> "err", e |-> InvalidStateErr(state)]
  ELSE IF Classify(state) = "running"
  THEN [send |-> "rdy", e |-> NoErr]
  ELSE [send |-> "none", e |-> NoErr]

\* AlivePolling when the goroutine stays in its loop after it has sent rdy
AlivePollingNoReturn == pc \in {"alive", "ports"}

\* the goroutine of containerIsAlive is in its `for range t.C`: every send is
\* followed by `t.Stop(); return`, and newContainer goes on when it receives
AlivePolling == pc = "alive"

\* a tick of containerIsAlive, and what newContainer does with its result
AliveTick ==
  /\ AlivePolling
  /\ Count("inspect") < MaxTicks
  /\ \E ok \in RunOutcomes(ctx = "done", rt.exists) :
       LET issued == Append(cmds, Cmd("inspect", "ctx", rt.exists, ok))
           o == AliveOutcome(ok, rt.status)
       IN /\ aliveLast' = IF ok THEN rt.status ELSE "none"
          /\ alive' = o.send
          /\ CASE o.send = "err" ->
                    /\ LaunchFails(o.e, issued)
                    /\ UNCHANGED <<ctr, ret>>
               [] o.send = "rdy" /\ NeedsPortDiscovery ->
                    /\ cmds' = issued
                    /\ pc' = "ports"
                    /\ UNCHANGED <<sCtx, stopPc, ctr, ret, err>>
               [] o.send = "rdy" /\ ~NeedsPortDiscovery ->
                    /\ cmds' = issued
                    /\ LaunchReturns(EmptyMap)
                    /\ UNCHANGED <<sCtx, stopPc, err>>
               [] OTHER ->
                    /\ cmds' = issued
                    /\ UNCHANGED <<sCtx, pc, stopPc, ctr, ret, err>>
  /\ UNCHANGED <<gor, msg, cfg, opts, argv, portOut, query, stopped,
                 ctx, rt, ids, portsCh, wait>>

\* the port goroutine's select takes <-ctx.Done()
PortCtxDone ==
  /\ pc = "ports"
  /\ ctx = "done"
  /\ portsCh' = "err"
  /\ LaunchFails(CtxErr, cmds)
  /\ UNCHANGED <<gor, msg, cfg, opts, argv, portOut, query, stopped,
                 ctx, rt, ids, ctr, ret, alive, aliveLast, wait>>

\* PortsAdopted when the loop takes the first mapping it reads
PortsAdoptedAlways(pm) == TRUE

\* `if len(pm) == 0 { continue }` of the port goroutine
PortsAdopted(pm) == DOMAIN pm # {}

\* the port goroutine's select takes <-t.C
PortTick ==
  /\ pc = "ports"
  /\ Count("port") < MaxTicks
  /\ \E ok \in RunOutcomes(ctx = "done", rt.exists),
        lines \in {<<>>, rt.portLines} :
       LET issued == Append(cmds, Cmd("port", "ctx", rt.exists, ok))
           r == getPublishedPorts(ok, lines)
       IN /\ portOut' = IF ok THEN lines ELSE <<>>
          /\ CASE r.err # NoErr ->
                    /\ portsCh' = "err"
                    /\ LaunchFails(r.err, issued)
                    /\ UNCHANGED <<ctr, ret>>
               [] r.err = NoErr /\ ~PortsAdopted(r.pm) ->
                    /\ cmds' = issued
                    /\ UNCHANGED <<sCtx, pc, stopPc, ctr, ret, err, portsCh>>
               [] OTHER ->
                    /\ portsCh' = "nil"
                    /\ cmds' = issued
                    /\ LaunchReturns(r.pm)
                    /\ UNCHANGED <<sCtx, stopPc, err>>
  /\ UNCHANGED <<gor, msg, cfg, opts, argv, query, stopped,
                 ctx, rt, ids, alive, aliveLast, wait>>

\* ------------------------------------------------------------------ Stop
StopRet(e) == [op |-> "Stop", ctr |-> ctr, err |-> e]

InStop == pc \in {"cleanup", "stopping"}

\* the steps of Stop, and the error each step's function returns
StopSteps == <<"stop", "volumes", "remove", "delete">>

StepErr(step) ==
  CASE step = "stop" -> <<"unable to stop container: ">>
    [] step = "volumes" -> <<"unable to inspect container: ", "args">>
    [] step = "remove" -> <<"unable to remove container: ">>
    [] OTHER -> <<"unable to inspect container: ">>

\* the name of the context the Stop in progress was called with
StopCtx == IF pc = "cleanup" THEN CleanupCtx ELSE "ctx"

StopCtxDone == IF StopCtx = "sCtx" THEN sCtx = "done" ELSE ctx = "done"

\* StopReturns when newContainer hands out its container on the failure path
StopReturnsHandle(e) ==
  /\ stopPc' = "none"
  /\ IF pc = "cleanup"
     THEN /\ ret' = StartRet(Ptr([id |-> ContainerId,
                                  portMappings |-> EmptyMap]),
                             LaunchErr(err))
          /\ pc' = "failed"
     ELSE /\ ret' = StopRet(e)
          /\ pc' = "launched"
  /\ stopped' = IF pc = "cleanup" THEN stopped
                ELSE IF e = NoErr \/ stopped = "nil" THEN "nil"
                ELSE "err"

\* Stop returns e: to the user, or to the deferred func of newContainer, which
\* drops it (`_ = ctr.Stop(sCtx)`) and lets newContainer's return value through
StopReturns(e) ==
  /\ stopPc' = "none"
  /\ IF pc = "cleanup"
     THEN /\ ret' = StartRet(Nil, LaunchErr(err))
          /\ pc' = "failed"
     ELSE /\ ret' = StopRet(e)
          /\ pc' = "launched"
  /\ stopped' = IF pc = "cleanup" THEN stopped
                ELSE IF e = NoErr \/ stopped = "nil" THEN "nil"
                ELSE "err"

\* StopContainerStep when the error of stopContainer is dropped
StopContainerStepIgnoreErr ==
  /\ InStop
  /\ stopPc = "stop"
  /\ \E ok \in RunOutcomes(StopCtxDone, rt.exists) :
       /\ cmds' = Append(cmds, Cmd("stop", StopCtx, rt.exists, ok))
       /\ rt' = IF ok THEN [rt EXCEPT !.status = stateExited] ELSE rt
       /\ stopPc' = "volumes"
       /\ UNCHANGED <<pc, ret, stopped>>
  /\ UNCHANGED <<gor, msg, cfg, opts, argv, portOut, query,
                 ctx, sCtx, ids, ctr, err, alive, portsCh, aliveLast,
                 wait>>

\* err := stopContainer(ctx, c.id)
StopContainerStep ==
  /\ InStop
  /\ stopPc = "stop"
  /\ \E ok \in RunOutcomes(StopCtxDone, rt.exists) :
       /\ cmds' = Append(cmds, Cmd("stop", StopCtx, rt.exists, ok))
       /\ IF ok
          THEN /\ rt' = [rt EXCEPT !.status = stateExited]
               /\ stopPc' = "volumes"
               /\ UNCHANGED <<pc, ret, stopped>>
          ELSE /\ StopReturns(StepErr("stop"))
               /\ UNCHANGED rt
  /\ UNCHANGED <<gor, msg, cfg, opts, argv, portOut, query,
                 ctx, sCtx, ids, ctr, err, alive, portsCh, aliveLast,
                 wait>>

\* GetVolumesStep when the error of getVolumes is dropped
GetVolumesStepIgnoreErr ==
  /\ InStop
  /\ stopPc = "volumes"
  /\ \E ok \in RunOutcomes(StopCtxDone, rt.exists) :
       /\ cmds' = Append(cmds, Cmd("volumes", StopCtx, rt.exists, ok))
       /\ ids' = IF ok THEN getVolumes(rt.mounts) ELSE <<>>
       /\ stopPc' = "remove"
       /\ UNCHANGED <<pc, ret, stopped>>
  /\ UNCHANGED <<gor, msg, cfg, opts, argv, portOut, query,
                 ctx, sCtx, rt, ctr, err, alive, portsCh, aliveLast,
                 wait>>

\* ids, err := getVolumes(ctx, c.id)
GetVolumesStep ==
  /\ InStop
  /\ stopPc = "volumes"
  /\ \E ok \in RunOutcomes(StopCtxDone, rt.exists) :
       /\ cmds' = Append(cmds, Cmd("volumes", StopCtx, rt.exists, ok))
       /\ IF ok
          THEN /\ ids' = getVolumes(rt.mounts)
               /\ stopPc' = "remove"
               /\ UNCHANGED <<pc, ret, stopped>>
          ELSE /\ StopReturns(StepErr("volumes"))
               /\ UNCHANGED ids
  /\ UNCHANGED <<gor, msg, cfg, opts, argv, portOut, query,
                 ctx, sCtx, rt, ctr, err, alive, portsCh, aliveLast,
                 wait>>

\* NoVolumes when Stop goes on to deleteVolumes whatever was enumerated
NoVolumesNever(vols) == FALSE

\* `if len(ids) == 0 { return nil }` of Stop
NoVolumes(vols) == Len(vols) = 0

\* the `docker volume rm` command of deleteVolumes, with its arguments
DeleteCmd(ctxName, exists, ok, args) ==
  [cmd |-> "delete", ctx |-> ctxName, exists |-> exists, ok |-> ok,
   args |-> args]

\* err = removeContainer(ctx, c.id), and `if len(ids) == 0 { return nil }`
RemoveContainerStep ==
  /\ InStop
  /\ stopPc = "remove"
  /\ \E ok \in RunOutcomes(StopCtxDone, rt.exists) :
       /\ cmds' = Append(cmds, Cmd("remove", StopCtx, rt.exists, ok))
       /\ IF ok
          THEN /\ rt' = [rt EXCEPT !.exists = FALSE, !.portLines = <<>>]
               /\ IF NoVolumes(ids)
                  THEN StopReturns(NoErr)
                  ELSE /\ stopPc' = "delete"
                       /\ UNCHANGED <<pc, ret, stopped>>
          ELSE /\ StopReturns(StepErr("remove"))
               /\ UNCHANGED rt
  /\ UNCHANGED <<gor, msg, cfg, opts, argv, portOut, query,
                 ctx, sCtx, ids, ctr, err, alive, portsCh, aliveLast,
                 wait>>

\* return deleteVolumes(ctx, ids)
DeleteVolumesStep ==
  /\ InStop
  /\ stopPc = "delete"
  /\ \E ok \in RunOutcomes(StopCtxDone, TRUE) :
       /\ cmds' = Append(cmds, DeleteCmd(StopCtx, rt.exists, ok, ids))
       /\ IF ok
          THEN /\ rt' = [rt EXCEPT !.mounts = VolumeRm(@, ids)]
               /\ StopReturns(NoErr)
          ELSE /\ StopReturns(StepErr("delete"))
               /\ UNCHANGED rt
  /\ UNCHANGED <<gor, msg, cfg, opts, argv, portOut, query,
                 ctx, sCtx, ids, ctr, err, alive, portsCh, aliveLast,
                 wait>>

\* the caller calls ctr.Stop(ctx) on the handle it holds
CallStop ==
  /\ pc = "launched"
  /\ ctx' \in {"live", "done"}
  /\ pc' = "stopping"
  /\ stopPc' = "stop"
  /\ cmds' = <<>>
  /\ ids' = <<>>
  /\ ret' = NoRet
  /\ wait' = NoWait
  /\ query' = NoQuery
  /\ UNCHANGED <<gor, msg, cfg, opts, argv, portOut, stopped,
                 sCtx, rt, ctr, err, alive, portsCh, aliveLast>>

\* --------------------------------------------------------------- WaitCmd
WaitRet(e) == [op |-> "WaitCmd", ctr |-> ctr, err |-> e]

\* the caller calls ctr.WaitCmd(ctx, cmd, metCondition, opts...)
CallWaitCmd ==
  /\ pc = "launched"
  /\ ctx' \in {"live", "done"}
  /\ \E pred \in Preds, inContainer \in BOOLEAN, runnable \in BOOLEAN :
       wait' = [NoWait EXCEPT !.pred = pred, !.inContainer = inContainer,
                              !.runnable = runnable]
  /\ pc' = "wait"
  /\ cmds' = <<>>
  /\ ret' = NoRet
  /\ query' = NoQuery
  /\ UNCHANGED <<gor, msg, cfg, opts, argv, portOut, stopped,
                 sCtx, rt, stopPc, ids, ctr, err, alive, portsCh,
                 aliveLast>>

\* the goroutine's select takes <-ctx.Done(): errCh <- ctx.Err()
WaitCtxDone ==
  /\ pc = "wait"
  /\ ctx = "done"
  /\ ret' = WaitRet(CtxErr)
  /\ pc' = "launched"
  /\ UNCHANGED <<gor, msg, cfg, opts, argv, portOut, query, stopped,
                 ctx, sCtx, rt, stopPc, ids, ctr, cmds, err, alive,
                 portsCh, aliveLast, wait>>

\* WaitOutcome with the test of metCondition inverted
WaitOutcomeInverted(pred, r) ==
  IF ProbeUnrunnable(r)
  THEN [called |-> FALSE, met |-> FALSE, send |-> TRUE, e |-> WaitCmdErr(r)]
  ELSE IF metCondition(pred, r.code)
  THEN [called |-> TRUE, met |-> TRUE, send |-> FALSE, e |-> NoErr]
  ELSE [called |-> TRUE, met |-> FALSE, send |-> TRUE, e |-> NoErr]

\* what one tick of WaitCmd's goroutine does with the probe's result r:
\* whether metCondition is called, and what is sent on errCh
WaitOutcome(pred, r) ==
  IF ProbeUnrunnable(r)
  THEN [called |-> FALSE, met |-> FALSE, send |-> TRUE, e |-> WaitCmdErr(r)]
  ELSE IF ~metCondition(pred, r.code)
  THEN [called |-> TRUE, met |-> FALSE, send |-> FALSE, e |-> NoErr]
  ELSE [called |-> TRUE, met |-> TRUE, send |-> TRUE, e |-> NoErr]

\* the goroutine's select takes <-t.C
WaitTick ==
  /\ pc = "wait"
  /\ wait.ticks < MaxTicks
  /\ \E r \in (IF wait.inContainer
               THEN dockerExecute(ctx = "done", rt.exists, wait.runnable)
               ELSE hostExecute(ctx = "done", wait.runnable)) :
       LET o == WaitOutcome(wait.pred, r)
       IN /\ wait' = [wait EXCEPT
                        !.ticks = @ + 1,
                        !.lateTicks = @ + (IF ctx = "done" THEN 1 ELSE 0),
                        !.unrunnable = @ + (IF ProbeUnrunnable(r) THEN 1 ELSE 0),
                        !.predCalls = @ + (IF o.called THEN 1 ELSE 0),
                        !.predTrue = @ + (IF o.met THEN 1 ELSE 0),
                        !.lastCode = r.code,
                        !.lastErr = r.err]
          /\ ctx' = IF r.cancel THEN "done" ELSE ctx
          /\ IF o.send
             THEN /\ ret' = WaitRet(o.e)
                  /\ pc' = "launched"
             ELSE UNCHANGED <<ret, pc>>
  /\ UNCHANGED <<gor, msg, cfg, opts, argv, portOut, query, stopped,
                 sCtx, rt, stopPc, ids, ctr, cmds, err, alive, portsCh,
                 aliveLast>>

\* ------------------------------------------------- Logs and the port getters
LogsRet(e) == [op |-> "Logs", ctr |-> ctr, err |-> e]

\* getLogs when the handle's logs can be read whatever the command did
getLogsAlwaysOk(ok) == NoErr

\* the error of getLogs(ctx, id) given the command's outcome
getLogs(ok) ==
  IF ok THEN NoErr
  ELSE Wrap("unable to retrieve logs for container: ", <<"exit status">>)

\* the caller calls ctr.Logs(ctx): one `docker logs <id>`
CallLogs ==
  /\ pc = "launched"
  /\ ctx' \in {"live", "done"}
  /\ \E ok \in RunOutcomes(ctx' = "done", rt.exists) :
       /\ cmds' = << Cmd("logs", "ctx", rt.exists, ok) >>
       /\ ret' = LogsRet(getLogs(ok))
  /\ query' = NoQuery
  /\ wait' = NoWait
  /\ UNCHANGED <<gor, msg, cfg, opts, argv, portOut, stopped, sCtx, rt, pc, stopPc, ids,
                 ctr, err, alive, portsCh, aliveLast>>

\* CallExposedPortAddresses when the getter asks the runtime again
CallExposedPortAddressesLive ==
  /\ pc = "launched"
  /\ \E p \in QueryPorts :
       LET c == [id |-> ctr[1].id,
                 portMappings |-> getPublishedPorts(TRUE, rt.portLines).pm]
           r == ExposedPortAddresses(c, p)
       IN query' = [port |-> p, addrs |-> r.addrs, ok |-> r.ok]
  /\ ret' = NoRet
  /\ cmds' = <<>>
  /\ wait' = NoWait
  /\ UNCHANGED <<gor, msg, cfg, opts, argv, portOut, stopped, ctx, sCtx, rt, pc, stopPc,
                 ids, ctr, err, alive, portsCh, aliveLast>>

\* the caller calls ctr.ExposedPortAddresses(p)
CallExposedPortAddresses ==
  /\ pc = "launched"
  /\ \E p \in QueryPorts :
       LET r == ExposedPortAddresses(ctr[1], p)
       IN query' = [port |-> p, addrs |-> r.addrs, ok |-> r.ok]
  /\ ret' = NoRet
  /\ cmds' = <<>>
  /\ wait' = NoWait
  /\ UNCHANGED <<gor, msg, cfg, opts, argv, portOut, stopped, ctx, sCtx, rt, pc, stopPc,
                 ids, ctr, err, alive, portsCh, aliveLast>>

\* ----------------------------------------------------------- environment
\* the caller's context is cancelled or its deadline passes during a call
CtxCancel ==
  /\ pc \in {"alive", "ports", "cleanup", "stopping", "wait"}
  /\ ctx = "live"
  /\ ctx' = "done"
  /\ UNCHANGED <<gor, msg, cfg, opts, argv, portOut, query, stopped,
                 sCtx, rt, pc, stopPc, ids, ctr, ret, cmds, err, alive,
                 portsCh, aliveLast, wait>>

\* the 5 second timeout of the deferred func's context passes
SCtxTimeout ==
  /\ pc = "cleanup"
  /\ sCtx = "live"
  /\ sCtx' = "done"
  /\ UNCHANGED <<gor, msg, cfg, opts, argv, portOut, query, stopped,
                 ctx, rt, pc, stopPc, ids, ctr, ret, cmds, err, alive,
                 portsCh, aliveLast, wait>>

\* the container's process changes the container's status; only
\* containerIsAlive reads the status, so only changes during it are modelled
RuntimeStatusChange ==
  /\ pc = "alive"
  /\ rt.exists
  /\ \E st \in Statuses \ {rt.status} : rt' = [rt EXCEPT !.status = st]
  /\ UNCHANGED <<gor, msg, cfg, opts, argv, portOut, query, stopped,
                 ctx, sCtx, pc, stopPc, ids, ctr, ret, cmds, err, alive,
                 portsCh, aliveLast, wait>>

\* somebody else removes the container (`docker rm -f`); a container that
\* is gone has no published ports
ExternalRemove ==
  /\ pc # "failed"
  /\ rt.exists
  /\ rt' = [rt EXCEPT !.exists = FALSE, !.portLines = <<>>]
  /\ UNCHANGED <<gor, msg, cfg, opts, argv, portOut, query, stopped,
                 ctx, sCtx, pc, stopPc, ids, ctr, ret, cmds, err, alive,
                 portsCh, aliveLast, wait>>

Next ==
  \/ StartNoDocker
  \/ StartRunFails
  \/ StartRunOk
  \/ AliveTick
  \/ PortCtxDone
  \/ PortTick
  \/ CallStop
  \/ StopContainerStep
  \/ GetVolumesStep
  \/ RemoveContainerStep
  \/ DeleteVolumesStep
  \/ CallWaitCmd
  \/ WaitCtxDone
  \/ WaitTick
  \/ CallLogs
  \/ CallExposedPortAddresses
  \/ CtxCancel
  \/ SCtxTimeout
  \/ RuntimeStatusChange
  \/ ExternalRemove

Spec == Init /\ [][Next]_vars

\* ------------------------------- newContainer from its options to the start
\* the state when newContainer is entered with its options
InitOpts ==
  /\ opts \in OptLists
  /\ cfg = NilCfg
  /\ argv = <<>>
  /\ portOut = <<>>
  /\ query = NoQuery
  /\ stopped = "no"
  /\ gor = "none"
  /\ msg = "none"
  /\ ctx \in {"live", "done"}
  /\ sCtx = "none"
  /\ rt = NoContainer
  /\ pc = "options"
  /\ stopPc = "none"
  /\ ids = <<>>
  /\ ctr = Nil
  /\ ret = NoRet
  /\ cmds = <<>>
  /\ err = NoErr
  /\ alive = "none"
  /\ portsCh = "none"
  /\ aliveLast = "none"
  /\ wait = NoWait

\* newContainer applies every option to cfg, in the order supplied
ApplyOptions ==
  /\ pc = "options"
  /\ cfg' = ApplyOpts(opts, cfg)
  /\ pc' = "idle"
  /\ UNCHANGED <<gor, msg, opts, argv, portOut, query, stopped, ctx, sCtx, rt,
                 stopPc, ids, ctr, ret, cmds, err, alive, portsCh, aliveLast,
                 wait>>

NextOpts ==
  \/ ApplyOptions
  \/ StartRunFails
  \/ StartRunOk

SpecOpts == InitOpts /\ [][NextOpts]_vars

\* ----------------------- the pollers with their goroutines and channels
\* the caller is blocked in the receive of containerIsAlive, of the port
\* loop of newContainer, or of WaitCmd
Pollers == {"alive", "ports", "wait"}

\* the state when a poller has started its goroutine and waits to receive
InitPoll ==
  /\ pc \in Pollers
  /\ gor = "loop"
  /\ msg = "none"
  /\ opts = IF pc = "ports" THEN <<WithRandomPort(80)>> ELSE <<>>
  /\ cfg = ApplyOpts(opts, NilCfg)
  /\ argv = StartArgs(cfg)
  /\ \E st \in (IF pc = "alive" THEN Statuses ELSE {stateRunning}),
        lines \in PublishOptions(cfg.ports) :
       rt = [exists |-> TRUE, status |-> st, portLines |-> lines,
             mounts |-> <<>>]
  /\ wait \in (IF pc = "wait"
               THEN { [NoWait EXCEPT !.pred = pred, !.inContainer = c,
                                     !.runnable = r] :
                        pred \in Preds, c \in BOOLEAN, r \in BOOLEAN }
               ELSE { NoWait })
  /\ portOut = <<>>
  /\ query = NoQuery
  /\ stopped = "no"
  /\ ctx \in {"live", "done"}
  /\ sCtx = "none"
  /\ stopPc = "none"
  /\ ids = <<>>
  /\ ctr = IF pc = "wait"
           THEN Ptr([id |-> ContainerId, portMappings |-> EmptyMap])
           ELSE Nil
  /\ ret = NoRet
  /\ cmds = <<>>
  /\ err = NoErr
  /\ alive = "none"
  /\ portsCh = "none"
  /\ aliveLast = "none"

\* what the goroutine of poller p does on a tick: the message it goes to
\* send ("none" when it loops), and whether its command ended the context
TickOutcomes(p) ==
  CASE p = "alive" ->
         { [send |-> AliveOutcome(ok, rt.status).send, cancel |-> FALSE] :
             ok \in RunOutcomes(ctx = "done", rt.exists) }
    [] p = "ports" ->
         { LET r == getPublishedPorts(x[1], x[2])
           IN [send |-> IF r.err # NoErr THEN "err"
                        ELSE IF PortsAdopted(r.pm) THEN "nil" ELSE "none",
               cancel |-> FALSE] :
             x \in RunOutcomes(ctx = "done", rt.exists)
                     \X {<<>>, rt.portLines} }
    [] OTHER ->
         { LET o == WaitOutcome(wait.pred, r)
           IN [send |-> IF ~o.send THEN "none"
                        ELSE IF o.e = NoErr THEN "nil" ELSE "err",
               cancel |-> r.cancel] :
             r \in (IF wait.inContainer
                    THEN dockerExecute(ctx = "done", rt.exists, wait.runnable)
                    ELSE hostExecute(ctx = "done", wait.runnable)) }

\* the goroutine takes a tick, runs its command and loops or goes to send
PollTick ==
  /\ gor = "loop"
  /\ pc \in Pollers
  /\ Len(cmds) < MaxTicks
  /\ \E o \in TickOutcomes(pc) :
       /\ cmds' = Append(cmds, Cmd(pc, "ctx", rt.exists, o.send # "err"))
       /\ msg' = o.send
       /\ gor' = IF o.send = "none" THEN "loop" ELSE "send"
       /\ ctx' = IF o.cancel THEN "done" ELSE ctx
  /\ UNCHANGED <<cfg, opts, argv, portOut, query, stopped, sCtx, rt, pc,
                 stopPc, ids, ctr, ret, err, alive, portsCh, aliveLast, wait>>

\* the select of the port loop or of WaitCmd takes <-ctx.Done();
\* containerIsAlive ranges over t.C and has no such case
PollCtxDone ==
  /\ gor = "loop"
  /\ pc \in {"ports", "wait"}
  /\ ctx = "done"
  /\ gor' = "send"
  /\ msg' = "ctxErr"
  /\ UNCHANGED <<cfg, opts, argv, portOut, query, stopped, ctx, sCtx, rt, pc,
                 stopPc, ids, ctr, ret, cmds, err, alive, portsCh, aliveLast,
                 wait>>

\* AfterSend when the goroutine stays in its loop after its send
AfterSendLoops == "loop"

\* where the goroutine goes after its send: `return` (with t.Stop())
AfterSend == "returned"

\* the unbuffered send meets the caller's receive: the caller returns what it
\* received and the goroutine goes on after its send
PollRecv ==
  /\ gor = "send"
  /\ pc \in Pollers
  /\ gor' = AfterSend
  /\ pc' = "returned"
  /\ ret' = [op |-> pc, ctr |-> Nil,
             err |-> IF msg \in {"rdy", "nil"} THEN NoErr ELSE <<msg>>]
  /\ UNCHANGED <<msg, cfg, opts, argv, portOut, query, stopped, ctx, sCtx, rt,
                 stopPc, ids, ctr, cmds, err, alive, portsCh, aliveLast,
                 wait>>

NextPoll ==
  \/ PollTick
  \/ PollCtxDone
  \/ PollRecv
  \/ CtxCancel
  \/ RuntimeStatusChange
  \/ ExternalRemove

SpecPoll == InitPoll /\ [][NextPoll]_vars

TypeOK ==
  /\ ctx \in {"live", "done"}
  /\ sCtx \in {"none", "live", "done"}
  /\ gor \in {"none", "loop", "send", "returned"}
  /\ msg \in {"none", "rdy", "nil", "err", "ctxErr"}
  /\ pc \in {"returned", "options", "idle", "alive", "ports", "cleanup", "failed", "launched",
             "stopping", "wait"}
  /\ stopPc \in {"none", "stop", "volumes", "remove", "delete"}
  /\ alive \in {"none", "rdy", "err"}
  /\ portsCh \in {"none", "nil", "err"}
  /\ stopped \in {"no", "err", "nil"}
  /\ Len(opts) <= MaxOpts

\* ================================================================ claims
Launched == ret.op = "StartContainer"

\* the launch in progress or just returned had its start command exit zero
StartExitedZero == Len(cmds) > 0 /\ cmds[1].cmd = "run" /\ cmds[1].ok

\* the commands of Stop among the commands of the call, in issue order
StopTrace == SelectSeq(cmds, LAMBDA c : \E i \in 1..4 : StopSteps[i] = c.cmd)

\* errors.Is(e, target): target is e or is wrapped by e
ErrorsIs(e, target) ==
  \E i \in 1..Len(e) : SubSeq(e, i, Len(e)) = target

\* C1: StartContainer returns a non-nil handle if and only if it returns a
\* nil error; a handle is returned only after the start command exited zero,
\* the liveness poller sent on rdy and, when ports were requested, the port
\* loop adopted a non-empty mapping; every failure returns a nil handle.
C1_HandleIffNilError ==
  Launched =>
    /\ (ret.ctr # Nil) <=> (ret.err = NoErr)
    /\ ret.ctr # Nil =>
         /\ ret.ctr = ctr
         /\ StartExitedZero
         /\ alive = "rdy"
         /\ Len(cfg.ports) > 0 =>
              /\ portsCh = "nil"
              /\ DOMAIN ret.ctr[1].portMappings # {}
    /\ ret.ctr = Nil => ctr = Nil

C1_Witness ==
  /\ Launched
  /\ ret.ctr # Nil
  /\ Len(cfg.ports) > 0
  /\ Count("port") > 1

\* C2: when the start command succeeded and a poller then failed, a stop of
\* the container was issued under the deferred func's own context (never the
\* caller's) before newContainer's result reached the caller, and the error
\* the caller gets wraps the poller's error, not an error of that Stop.
C2_CleanupBeforeError ==
  (Launched /\ StartExitedZero /\ ret.err # NoErr) =>
    /\ StopTrace # <<>>
    /\ StopTrace[1].cmd = "stop"
    /\ \A i \in 1..Len(StopTrace) : StopTrace[i].ctx = "sCtx"
    /\ err # NoErr
    /\ \A i \in 1..4 : err # StepErr(StopSteps[i])
    /\ ret.err = LaunchErr(err)

C2_Witness ==
  /\ Launched
  /\ err = CtxErr
  /\ ctx = "done"
  /\ Len(StopTrace) = 4
  /\ StopTrace[4].ok

\* C3: Stop issues stop, volumes, remove, delete in this order; a step is
\* issued only after all earlier ones succeeded; a failed step is the last
\* one issued and its error is what Stop returns.
C3_StopOrder ==
  /\ Len(StopTrace) <= 4
  /\ \A i \in 1..Len(StopTrace) :
       /\ StopTrace[i].cmd = StopSteps[i]
       /\ i < Len(StopTrace) => StopTrace[i].ok
  /\ (ret.op = "Stop" /\ StopTrace # <<>>) =>
       ret.err = IF StopTrace[Len(StopTrace)].ok THEN NoErr
                 ELSE StepErr(StopTrace[Len(StopTrace)].cmd)
  /\ ret.op = "Stop" => StopTrace # <<>>

C3_Witness ==
  /\ ret.op = "Stop"
  /\ Len(StopTrace) = 3
  /\ ~StopTrace[3].ok

\* C4: a stop command issued for a container the runtime no longer has fails,
\* no other command follows it, and Stop returns the stop step's error.
C4_StopOnGoneContainer ==
  \A i \in 1..Len(cmds) :
    (cmds[i].cmd = "stop" /\ ~cmds[i].exists) =>
      /\ ~cmds[i].ok
      /\ i = Len(cmds)
      /\ ~InStop
      /\ cmds[i].ctx = "ctx" => ret = StopRet(StepErr("stop"))

C4_Witness ==
  /\ ret.op = "Stop"
  /\ ctx = "live"
  /\ Len(cmds) = 1
  /\ ~cmds[1].exists

\* C5: WaitCmd with an always-false predicate and a runnable probe never
\* returns nil, returns an error that is the context's error, and takes at
\* most one tick after the context is done.
C5_AlwaysFalseEndsWithCtxErr ==
  /\ (ret.op = "WaitCmd" /\ wait.pred = "alwaysFalse" /\ wait.runnable) =>
       /\ ret.err # NoErr
       /\ ErrorsIs(ret.err, CtxErr)
  /\ wait.lateTicks <= 1

\* C6: metCondition is called exactly once on every tick whose probe was not
\* unrunnable and on no other; it returns true at most once, WaitCmd returns
\* nil exactly on the tick it does, and a probe that satisfies it on the
\* first tick gives nil after exactly one call.
C6_PredicateOncePerTick ==
  (pc = "wait" \/ ret.op = "WaitCmd") =>
    /\ wait.predCalls + wait.unrunnable = wait.ticks
    /\ wait.predTrue <= 1
    /\ (ret.op = "WaitCmd" /\ ret.err = NoErr) <=> (wait.predTrue = 1)
    /\ wait.predTrue = 1 =>
         /\ metCondition(wait.pred, wait.lastCode)
         /\ wait.predCalls = wait.ticks
    /\ ( /\ wait.ticks = 1
         /\ ~(wait.lastErr # NoErr /\ wait.lastCode = notStarted)
         /\ metCondition(wait.pred, wait.lastCode) ) =>
         /\ ret = WaitRet(NoErr)
         /\ wait.predCalls = 1

C6_Witness ==
  /\ ret = WaitRet(NoErr)
  /\ wait.ticks = 3
  /\ wait.predCalls = 3

\* C7: a probe result with exit code -1 and an error ends WaitCmd on that
\* tick with the wait-command error, without a call of metCondition and
\* without a later tick; a probe that exited with a real non-zero code goes
\* to metCondition, and WaitCmd keeps polling if that returns false.
C7_UnrunnableProbeFailsAtOnce ==
  ((pc = "wait" \/ ret.op = "WaitCmd") /\ wait.ticks > 0) =>
    /\ (wait.lastCode = notStarted /\ wait.lastErr # NoErr) =>
         /\ ret = WaitRet(Wrap("wait command errored: ", wait.lastErr))
         /\ wait.unrunnable = 1
         /\ wait.predCalls = wait.ticks - 1
    /\ wait.unrunnable > 0 => wait.lastCode = notStarted
    /\ wait.lastCode \notin {0, notStarted} =>
         /\ wait.predCalls = wait.ticks
         /\ ~metCondition(wait.pred, wait.lastCode) =>
              (pc = "wait" \/ ret = WaitRet(CtxErr))

C7_Witness ==
  /\ ret.op = "WaitCmd"
  /\ wait.pred = "codeIsZero"
  /\ wait.ticks = 2
  /\ wait.predCalls = 1
  /\ wait.unrunnable = 1

\* C8: the poller succeeds exactly on status running; on dead, exited, paused
\* and restarting it fails with an error that holds the raw status; on
\* created and on any other status it keeps polling; a launch whose poller
\* read exited returns "container in invalid state: 'exited'".
C8_LivenessMapping ==
  /\ alive = "rdy" <=> aliveLast = stateRunning
  /\ aliveLast \in {stateDead, stateExited, statePaused, stateRestarting} =>
       /\ alive = "err"
       /\ \E i \in 1..Len(err) : err[i] = aliveLast
       /\ Launched => ret = StartRet(Nil, LaunchErr(err))
  /\ aliveLast \in {stateCreated, stateRemoving} =>
       /\ alive = "none"
       /\ pc = "alive"
  /\ (Launched /\ aliveLast = stateExited) =>
       ErrorsIs(ret.err, <<"container in invalid state: ", "'exited'\n">>)

C8_Witness ==
  /\ Launched
  /\ aliveLast = stateExited
  /\ Count("inspect") = 3

\* C9: after a successful launch with at least one exposed port,
\* ExposedPorts(p) is a non-empty list with ok = true for every requested
\* port p, and ExposedPorts and ExposedPortAddresses give an empty result
\* with ok = false for every port that was not requested.
C9_RequestedPortsExposed ==
  (ctr # Nil /\ Len(cfg.ports) > 0) =>
    /\ \A p \in RequestedPorts(cfg.ports) :
         /\ ExposedPorts(ctr[1], p).ok
         /\ ExposedPorts(ctr[1], p).ports # <<>>
    /\ \A p \in QueryPorts \ RequestedPorts(cfg.ports) :
         /\ ExposedPorts(ctr[1], p) = [ports |-> <<>>, ok |-> FALSE]
         /\ ExposedPortAddresses(ctr[1], p) = [addrs |-> <<>>, ok |-> FALSE]

\* C10: with no exposed ports StartContainer succeeds if and only if the
\* start command exited zero and the liveness poller sent on rdy; then no
\* port query was issued and portMappings is the empty map.
C10_NoPortsLaunch ==
  (Launched /\ Len(cfg.ports) = 0) =>
    /\ (ret.err = NoErr) <=> (StartExitedZero /\ alive = "rdy")
    /\ ret.err = NoErr =>
         /\ Count("port") = 0
         /\ ret.ctr # Nil
         /\ ret.ctr[1].portMappings = EmptyMap
         /\ cmds[Len(cmds)] = Cmd("inspect", "ctx", TRUE, TRUE)

C10_Witness ==
  /\ Launched
  /\ Len(cfg.ports) = 0
  /\ ret.err = NoErr
  /\ Count("inspect") = 2

\* the *Container that newContainer built from the last `docker port` output
Discovered ==
  [id |-> ContainerId, portMappings |-> getPublishedPorts(TRUE, portOut).pm]

\* C11: once a handle exists its id and portMappings never change, whatever
\* is called on it and whatever the runtime publishes now: the handle is the
\* one built from the mapping discovered at launch, and every
\* ExposedPortAddresses(p) returns what that mapping holds for p.
C11_HandleFixedAtCreation ==
  /\ [](ctr # Nil =>
          /\ ctr[1] = Discovered
          /\ query # NoQuery =>
               /\ query.addrs = ExposedPortAddresses(Discovered, query.port).addrs
               /\ query.ok = ExposedPortAddresses(Discovered, query.port).ok)
  /\ [][ctr # Nil => (ctr' = ctr /\ portOut' = portOut)]_vars

C11_Witness ==
  /\ stopped = "nil"
  /\ ~rt.exists
  /\ rt.portLines = <<>>
  /\ query.ok
  /\ query.addrs # <<>>

PortPart(addr) ==
  LET parts == Split(addr, Colon)
  IN ParseUint(parts[Len(parts)])

\* C13: for every port of a handle ExposedPorts and ExposedPortAddresses
\* agree: the same ok, lists of the same length, and the i-th host port is
\* the port part of the i-th address, for IPv4 and IPv6 bindings alike.
C13_PortsAgreeWithAddresses ==
  ctr # Nil =>
    \A p \in QueryPorts :
      LET ps == ExposedPorts(ctr[1], p)
          as == ExposedPortAddresses(ctr[1], p)
      IN /\ ps.ok = as.ok
         /\ Len(ps.ports) = Len(as.addrs)
         /\ \A i \in 1..Len(as.addrs) :
              /\ PortPart(as.addrs[i]).ok
              /\ i <= Len(ps.ports) => ps.ports[i] = PortPart(as.addrs[i]).v

\* C14: the start invocation holds one -p flag per exposed pair, in
\* configuration order, whose value is the bare internal port when the host
\* port is 0 and "<host>:<internal>" otherwise; the flags precede the image
\* name and the command-override arguments follow it.
C14_PublishFlagsHostFirst ==
  argv # <<>> =>
    LET n == Len(cfg.ports)
        img == 2 + 2 * n + 2 * Len(cfg.env) + 1
        hostFirst(pair) ==
          IF pair[2] = 0 THEN FormatUint(pair[1])
          ELSE FormatUint(pair[2]) \o Colon \o FormatUint(pair[1])
    IN /\ Cardinality({ i \in 1..Len(argv) : argv[i] = WPublish }) = n
       /\ \A i \in 1..n :
            /\ argv[2 * i + 1] = WPublish
            /\ argv[2 * i + 2] = hostFirst(cfg.ports[i])
       /\ Len(argv) = img + Len(cfg.args)
       /\ argv[img] = WImage
       /\ SubSeq(argv, img + 1, Len(argv)) = cfg.args

\* the "<KEY>=<VALUE>" entries of the WithEnvVar options of os, in order
RECURSIVE EnvEntries(_)
EnvEntries(os) ==
  IF os = <<>> THEN <<>>
  ELSE IF Head(os).opt = "WithEnvVar"
       THEN <<ToUpper(Head(os).key) \o <<"=">> \o Head(os).value>>
              \o EnvEntries(Tail(os))
  ELSE EnvEntries(Tail(os))

InLaunchTrace ==
  pc \in {"alive", "ports", "cleanup", "failed"} \/ ret.op = "StartContainer"

Inspects == { i \in 1..Len(cmds) : cmds[i].cmd = "inspect" }

LastInspect == CHOOSE i \in Inspects : \A j \in Inspects : j <= i

\* C16: the liveness poller reports exactly one terminal outcome: every pass
\* before the one that sends has read a starting status, the pass that sends
\* is the last inspection, containerIsAlive returns what was sent (nil for
\* rdy, the sent error otherwise), and after the send the outcome does not
\* change and no further inspection is issued.
C16_OneLivenessOutcome ==
  /\ [](InLaunchTrace =>
          /\ \A i \in Inspects : (alive = "none" \/ i < LastInspect) => cmds[i].ok
          /\ alive # "none" => Inspects # {}
          /\ alive = "err" =>
               /\ portsCh = "none"
               /\ err # NoErr
               /\ err = AliveOutcome(cmds[LastInspect].ok, aliveLast).e
               /\ pc \in {"cleanup", "failed"}
          /\ alive = "rdy" =>
               /\ cmds[LastInspect].ok
               /\ AliveOutcome(TRUE, aliveLast).send = "rdy"
               /\ portsCh = "none" => (err = NoErr /\ pc \in {"ports", "launched"}))
  /\ [][alive # "none" =>
          /\ alive' = alive
          /\ aliveLast' = aliveLast
          /\ ~(/\ Len(cmds') = Len(cmds) + 1
               /\ cmds'[Len(cmds')].cmd = "inspect")]_vars

C16_Witness ==
  /\ alive = "rdy"
  /\ pc = "launched"
  /\ ret.op = "StartContainer"
  /\ Count("inspect") = 2
  /\ Count("port") = 2

\* C17: cancellation of the caller's context ends the liveness poller at the
\* next tick, whatever the container's status: the inspection of a tick
\* taken with the context done fails, the goroutine sends that error and
\* containerIsAlive returns it, so no tick after the cancellation reports
\* rdy or leaves the poller polling.
C17_CancelEndsLivenessPolling ==
  [][(pc = "alive" /\ ctx = "done" /\ cmds' # cmds) =>
       /\ Len(cmds') = Len(cmds) + 2
       /\ cmds'[Len(cmds) + 1] = Cmd("inspect", "ctx", rt.exists, FALSE)
       /\ alive' = "err"
       /\ err' # NoErr
       /\ err' = AliveOutcome(FALSE, rt.status).e
       /\ pc' = "cleanup"
       /\ ctr' = Nil]_vars

C17_Witness ==
  /\ ctx = "done"
  /\ rt.exists
  /\ Classify(rt.status) = "starting"
  /\ Count("inspect") = 2
  /\ cmds[2].ok
  /\ alive = "err"
  /\ pc = "cleanup"
  /\ stopPc = "stop"

\* C18: a tick of the port loop issues one query; if the query fails the
\* loop sends its error and newContainer fails with it, if the mapping read
\* is empty the loop keeps polling, and the first non-empty mapping becomes
\* the handle's portMappings; after the loop has sent no query is issued.
\* With two empty answers and then "80/tcp -> 0.0.0.0:49155" three queries
\* are issued and ExposedPorts(80) is ([49155], true).
C18_PortLoopAdoptsFirstMapping ==
  /\ [][(pc = "ports" /\ Len(cmds') > Len(cmds)
           /\ cmds'[Len(cmds) + 1].cmd = "port") =>
          LET q == cmds'[Len(cmds) + 1]
              r == getPublishedPorts(q.ok, portOut')
          IN /\ ~q.ok =>
                  /\ r.err # NoErr /\ err' = r.err
                  /\ portsCh' = "err" /\ pc' = "cleanup" /\ ctr' = Nil
             /\ (q.ok /\ DOMAIN r.pm = {}) =>
                  /\ cmds' = Append(cmds, q)
                  /\ portsCh' = "none" /\ pc' = "ports" /\ ctr' = Nil
             /\ (q.ok /\ DOMAIN r.pm # {}) =>
                  /\ cmds' = Append(cmds, q)
                  /\ portsCh' = "nil" /\ pc' = "launched"
                  /\ ctr' = Ptr([id |-> ContainerId, portMappings |-> r.pm])
                  /\ ret' = StartRet(ctr', NoErr)]_vars
  /\ [][portsCh # "none" =>
          /\ portsCh' = portsCh
          /\ ~(/\ Len(cmds') > Len(cmds)
               /\ cmds'[Len(cmds) + 1].cmd = "port")]_vars
  /\ []((/\ ret.op = "StartContainer" /\ ctr # Nil
          /\ portOut = << PortLine(80, AddrV4(RandomHostPort)) >>) =>
          /\ \A i \in 1..Len(cmds) : cmds[i].ok
          /\ ExposedPorts(ctr[1], 80) = [ports |-> <<RandomHostPort>>, ok |-> TRUE])

C18_Witness ==
  /\ ret.op = "StartContainer"
  /\ ctr # Nil
  /\ cfg.ports = << <<80, 0>> >>
  /\ portOut = << PortLine(80, AddrV4(RandomHostPort)) >>
  /\ Count("port") = 3
  /\ ExposedPorts(ctr[1], 80) = [ports |-> <<49155>>, ok |-> TRUE]

\* C19: the phases of a launch are sequential: an inspection is issued only
\* after the start command exited zero and while the liveness poller has not
\* sent, a port query only after the poller sent rdy, and the handle is
\* returned only after rdy and, with ports requested, after the port loop
\* adopted a mapping; in the commands of a launch the start command comes
\* first and every inspection precedes every port query.
C19_PhasesSequential ==
  /\ [][(Len(cmds') > Len(cmds) /\ cmds'[Len(cmds) + 1].cmd = "inspect") =>
          /\ StartExitedZero
          /\ alive = "none" /\ portsCh = "none"
          /\ Count("port") = 0
          /\ ctr = Nil]_vars
  /\ [][(Len(cmds') > Len(cmds) /\ cmds'[Len(cmds) + 1].cmd = "port") =>
          /\ StartExitedZero
          /\ alive = "rdy" /\ portsCh = "none"
          /\ cmds[Len(cmds)].cmd \in {"inspect", "port"}
          /\ ctr = Nil]_vars
  /\ [][(ctr = Nil /\ ctr' # Nil) =>
          /\ StartExitedZero
          /\ alive' = "rdy"
          /\ Len(cfg.ports) > 0 => portsCh' = "nil"
          /\ cmds'[Len(cmds')].cmd = (IF Len(cfg.ports) > 0 THEN "port"
                                      ELSE "inspect")]_vars
  /\ [](InLaunchTrace =>
          \A i, j \in 1..Len(cmds) :
            /\ cmds[i].cmd = "run" => i = 1
            /\ (cmds[i].cmd = "port" /\ cmds[j].cmd = "inspect") => j < i)

C19_Witness ==
  /\ ret.op = "StartContainer"
  /\ ctr # Nil
  /\ Count("run") = 1
  /\ Count("inspect") = 3
  /\ Count("port") = 1

\* a published-port line whose internal port getPublishedPorts cannot parse
Unparsable(line) ==
  ~ParseUint(ReplaceAll(Split(line, Arrow)[1], SlashTcp, <<>>)).ok

\* C20: no error is swallowed on the launch path: when a line of the port
\* query's output cannot be parsed, port discovery has reported an error
\* of its own and stopped.
C20_UnparsablePortLineReported ==
  (\E i \in 1..Len(portOut) : Unparsable(portOut[i])) =>
    /\ portsCh = "err"
    /\ pc \in {"cleanup", "failed"}
    /\ err # NoErr
    /\ err # CtxErr

\* C21: in Stop the volume deletion is issued if and only if the stop,
\* enumerate and remove steps succeeded and at least one volume was
\* enumerated; it is one command whose arguments are the names of the
\* container's mounts of type volume, in order, never a bind mount; with
\* nothing enumerated Stop returns nil right after the removal.
C21_VolumeDeletion ==
  /\ [][(Len(cmds') > Len(cmds) /\ cmds'[Len(cmds')].cmd = "delete") =>
          LET d == cmds'[Len(cmds')]
          IN /\ Len(StopTrace) = 3
             /\ \A i \in 1..3 : StopTrace[i].ok
             /\ d.args # <<>>
             /\ d.args = ids
             /\ \A i \in 1..Len(d.args) :
                  \E k \in 1..Len(rt.mounts) : rt.mounts[k] = Volume(d.args[i])
             /\ \A i \in 1..Len(rt.mounts) :
                  rt.mounts[i].type = "volume" =>
                    \E j \in 1..Len(d.args) : d.args[j] = rt.mounts[i].name
             /\ Len(d.args) =
                  Cardinality({ i \in 1..Len(rt.mounts) :
                                  rt.mounts[i].type = "volume" })]_vars
  /\ [](/\ Count("delete") <= 1
        /\ (~InStop /\ Len(StopTrace) = 3 /\ \A i \in 1..3 : StopTrace[i].ok) =>
             /\ ids = <<>>
             /\ \A i \in 1..Len(rt.mounts) : rt.mounts[i].type # "volume"
             /\ ret.op = "Stop" => ret.err = NoErr
        /\ (InStop /\ stopPc = "delete") =>
             /\ Len(StopTrace) = 3
             /\ ids # <<>>)

C21_Witness ==
  /\ ret = StopRet(NoErr)
  /\ Len(StopTrace) = 4
  /\ StopTrace[4].ok
  /\ StopTrace[4].args = <<"vol1", "vol2">>
  /\ rt.mounts = <<Bind>>

\* C22: no polling goroutine outlives its caller: the caller of
\* containerIsAlive, of the port loop and of WaitCmd returns only by
\* receiving the goroutine's send, a goroutine at its send always has its
\* caller waiting to receive, the goroutine sends once and issues no command
\* after it, and when the caller has returned the goroutine has returned.
C22_NoGoroutineLeft ==
  /\ [](/\ pc = "returned" =>
             /\ gor = "returned"
             /\ msg # "none"
             /\ ret.err = NoErr <=> msg \in {"rdy", "nil"}
        /\ gor = "send" => (pc \in Pollers /\ msg # "none")
        /\ gor = "loop" => (pc \in Pollers /\ msg = "none"))
  /\ [][/\ msg # "none" => (msg' = msg /\ cmds' = cmds)
        /\ (pc # "returned" /\ pc' = "returned") => gor = "send"
        /\ gor = "returned" => gor' = "returned"]_vars

C22_Witness ==
  /\ pc = "returned"
  /\ gor = "returned"
  /\ ret.op = "alive"
  /\ msg = "err"
  /\ ctx = "done"
  /\ Len(cmds) = 2
  /\ cmds[1].ok

\* the start command of the launch did not exit zero
StartFailed == Len(cmds) > 0 /\ cmds[1].cmd = "run" /\ ~cmds[1].ok

\* C23: when the start command fails newContainer returns a nil handle and
\* the wrapped start error, and the start command stays the only runtime
\* command: no inspection, port query, log retrieval or cleanup Stop is
\* issued, so a container the runtime created all the same is left as it is.
C23_StartFailureIssuesNothing ==
  /\ [](StartFailed =>
          /\ cmds = << Cmd("run", "ctx", FALSE, FALSE) >>
          /\ pc = "failed"
          /\ ret = StartRet(Nil, Wrap("[img]() %w", <<"unable to start container">>))
          /\ ctr = Nil
          /\ sCtx = "none" /\ stopPc = "none"
          /\ alive = "none" /\ portsCh = "none")
  /\ [][StartFailed => (cmds' = cmds /\ rt' = rt)]_vars

C23_Witness ==
  /\ StartFailed
  /\ rt.exists
  /\ ctx = "live"
  /\ ret.err # NoErr

====
